---- MODULE Spec2Model ----
(***************************************************************************)
(* Model of fill_text_to_shape (src/image_processing.py): the boundary     *)
(* scanner, the line packer, the renderer's cursor arithmetic, the         *)
(* font-size search of fit_text_to_image and the process-wide glyph-width  *)
(* memoization table.                                                      *)
(*                                                                         *)
(* Python floats are modelled as exact rationals <<n, d>> (d > 0, lowest   *)
(* terms); pixel coordinates and glyph widths are integers.                *)
(***************************************************************************)
EXTENDS Integers, Sequences, FiniteSets, TLC

VARIABLES
    pc,                 \* position of the modelled call
    image,              \* [width, height, px]: px = the pixels with alpha > 0
    boundaries_spacing, \* get_text_boundaries' row spacing / stride
    boundaries,         \* sequence of Boundary
    text,               \* sequence of characters
    font,               \* [size]: the ImageFont loaded at a pixel size
    min_spacing,        \* rational
    lines,              \* sequence of TextLine
    drawn,              \* what draw_text_lines passed to draw.text
    lower, upper, font_size,  \* search window and candidate (rationals)
    hist,               \* history of the search, for the temporal claims
    cache,              \* get_word_width's memoization table
    fonts,              \* font id -> size, for the font objects alive
    runs                \* per fitting run: its position, font and last lookup

vars == <<pc, image, boundaries_spacing, boundaries, text, font, min_spacing,
          lines, drawn, lower, upper, font_size, hist, cache, fonts, runs>>

----------------------------------------------------------------------------
(* Bounds of the model *)

\* SpecScan: images up to MaxWidth x MaxHeight, strides 1 .. MaxStep
\* SpecPack: texts of up to MaxText characters, boundaries of length up to
\*   MaxLen, fonts of size 1 .. MaxFontSize
\* Spec: texts of up to MaxFitText characters; MinScaledWidth stands for
\*   the 2000 of max(2000, image.width), so that the working image is small
\*   enough to be scanned pixel by pixel
\* SpecCache: at most MaxFonts font objects alive at once

MaxWidth == 4
MaxHeight == 3
MaxStep == 2
MaxText == 5
MaxLen == 5
MaxFontSize == 2
MaxFitText == 3
MinScaledWidth == 20
MaxFonts == 3

----------------------------------------------------------------------------
(* Exact rationals standing for Python floats *)

\* F applied to the value of e, which is evaluated once
With(e, F(_)) == CHOOSE r \in { F(v) : v \in {e} } : TRUE

Abs(n) == IF n < 0 THEN -n ELSE n

Max(a, b) == IF a >= b THEN a ELSE b

Min(a, b) == IF a <= b THEN a ELSE b

RECURSIVE Gcd(_, _)
Gcd(a, b) == IF b = 0 THEN a ELSE Gcd(b, a % b)

Reduce(n, d, g) == <<n \div g, d \div g>>

\* n / d in lowest terms, d # 0
Rat(n, d) ==
    With(<<n, d>>, LAMBDA q :
        IF q[2] < 0
        THEN Reduce(-q[1], -q[2], Gcd(Abs(q[1]), Abs(q[2])))
        ELSE Reduce(q[1], q[2], Gcd(Abs(q[1]), Abs(q[2]))))

FromInt(n) == <<n, 1>>

RAdd(a, b) ==
    With(<<a, b>>, LAMBDA p :
        Rat(p[1][1] * p[2][2] + p[2][1] * p[1][2], p[1][2] * p[2][2]))

RSub(a, b) ==
    With(<<a, b>>, LAMBDA p :
        Rat(p[1][1] * p[2][2] - p[2][1] * p[1][2], p[1][2] * p[2][2]))

RMul(a, b) ==
    With(<<a, b>>, LAMBDA p : Rat(p[1][1] * p[2][1], p[1][2] * p[2][2]))

RDiv(a, b) ==
    With(<<a, b>>, LAMBDA p : Rat(p[1][1] * p[2][2], p[1][2] * p[2][1]))

RLess(a, b) ==
    With(<<a, b>>, LAMBDA p : p[1][1] * p[2][2] < p[2][1] * p[1][2])

RLeq(a, b) ==
    With(<<a, b>>, LAMBDA p : p[1][1] * p[2][2] <= p[2][1] * p[1][2])

RFloor(a) == a[1] \div a[2]

----------------------------------------------------------------------------
(* Boundary Scanner *)

\* Boundary.length
BoundaryLength(b) == Abs(b.start_point[1] - b.end_point[1])

GetPixelOpaque(img, x, y) == <<x, y>> \in img.px

is_target_pixel(img, x, y, find_transparent) ==
    \/ find_transparent /\ ~GetPixelOpaque(img, x, y)
    \/ ~find_transparent /\ GetPixelOpaque(img, x, y)

\* for x in range(x, max(-1, x - step), -1): the fine backtrack from a hit
RECURSIVE Backtrack(_, _, _, _, _, _)
Backtrack(img, x, stop, y, step, find_transparent) ==
    IF ~is_target_pixel(img, x, y, find_transparent) THEN x + 1
    ELSE IF x - 1 > stop
         THEN With(x - 1, LAMBDA left :
                  Backtrack(img, left, stop, y, step, find_transparent))
         ELSE x

RECURSIVE CoarseJump(_, _, _, _, _)
CoarseJump(img, x, y, step, find_transparent) ==
    IF x >= img.width THEN x
    ELSE IF is_target_pixel(img, x, y, find_transparent)
         THEN With(Max(-1, x - step), LAMBDA stop :
                  Backtrack(img, x, stop, y, step, find_transparent))
         ELSE With(x + step, LAMBDA right :
                  CoarseJump(img, right, y, step, find_transparent))

find_pixel(img, start_x, start_y, step, find_transparent) ==
    Min(CoarseJump(img, start_x, start_y, step, find_transparent), img.width)

RECURSIVE ScanRow(_, _, _, _, _)
ScanRow(img, y, spacing, x0, acc) ==
    With(find_pixel(img, x0, y, spacing, FALSE), LAMBDA x :
        IF x = img.width THEN acc
        ELSE With(find_pixel(img, x + 1, y, spacing, TRUE), LAMBDA end_x :
                 ScanRow(img, y, spacing, end_x,
                         Append(acc, [start_point |-> <<x, y>>,
                                      end_point |-> <<end_x - 1, y>>]))))

RECURSIVE ScanRows(_, _, _, _)
ScanRows(img, y, spacing, acc) ==
    IF y >= img.height THEN acc
    ELSE With(<<y + spacing, ScanRow(img, y, spacing, 0, acc)>>, LAMBDA r :
             ScanRows(img, r[1], spacing, r[2]))

get_text_boundaries(img, spacing) == ScanRows(img, spacing, spacing, <<>>)

----------------------------------------------------------------------------
(* Values of the variables a specification does not use *)

NoImage == [width |-> 0, height |-> 0, px |-> {}]

NoFont == [size |-> 0]

Zero == <<0, 1>>

NoHist == [evaluated |-> FALSE, found |-> FALSE, bisected |-> FALSE,
           expanded |-> FALSE, last_size |-> <<0, 1>>]

----------------------------------------------------------------------------
(* SpecScan: get_text_boundaries applied to every small image and stride *)

ScanImages ==
    UNION { { [width |-> w, height |-> h, px |-> p] :
                p \in SUBSET ((0 .. w - 1) \X (1 .. h - 1)) } :
            w \in 1 .. MaxWidth, h \in 1 .. MaxHeight }

InitScan ==
    /\ pc = "scan"
    /\ image \in ScanImages
    /\ boundaries_spacing \in 1 .. MaxStep
    /\ boundaries = <<>>
    /\ text = <<>> /\ font = NoFont /\ min_spacing = Zero
    /\ lines = <<>> /\ drawn = <<>>
    /\ lower = Zero /\ upper = Zero /\ font_size = Zero
    /\ hist = NoHist
    /\ cache = <<>> /\ fonts = <<>> /\ runs = <<>>

GetTextBoundaries ==
    /\ pc = "scan"
    /\ boundaries' = get_text_boundaries(image, boundaries_spacing)
    /\ pc' = "scanned"
    /\ UNCHANGED <<image, boundaries_spacing, text, font, min_spacing, lines,
                   drawn, lower, upper, font_size, hist, cache, fonts, runs>>

NextScan == GetTextBoundaries

SpecScan == InitScan /\ [][NextScan]_vars

----------------------------------------------------------------------------
(* Claims about the scanner (checked under SpecScan) *)

ScannedRows ==
    { y \in 1 .. image.height - 1 : y % boundaries_spacing = 0 }

RowBoundaries(y) == SelectSeq(boundaries, LAMBDA b : b.start_point[2] = y)

\* where the search for the i-th boundary of a row began: x = 0, or the
\* end_x of the previous boundary of that row
SearchStart(bs, i) == IF i = 1 THEN 0 ELSE bs[i - 1].end_point[1] + 1

\* C1: every Boundary emitted by get_text_boundaries has length > 0 and an
\* end x-coordinate <= image.width.
C1_BoundariesNonDegenerate ==
    pc = "scanned" =>
        \A i \in 1 .. Len(boundaries) :
            /\ BoundaryLength(boundaries[i]) > 0
            /\ boundaries[i].end_point[1] <= image.width

\* C9: on every scanned row each emitted boundary starts at the leftmost
\* opaque pixel at or after the position where the search for it began, and
\* a row stops yielding boundaries only when no opaque pixel is left from
\* that position on.
C9_NeverSkipsBoundaryStart ==
    pc = "scanned" =>
        \A y \in ScannedRows :
            LET bs == RowBoundaries(y) IN
            /\ \A i \in 1 .. Len(bs) :
                 /\ GetPixelOpaque(image, bs[i].start_point[1], y)
                 /\ \A x \in SearchStart(bs, i) .. bs[i].start_point[1] - 1 :
                        ~GetPixelOpaque(image, x, y)
            /\ \A x \in SearchStart(bs, Len(bs) + 1) .. image.width - 1 :
                   ~GetPixelOpaque(image, x, y)

----------------------------------------------------------------------------
(* Glyph metrics, TextLine and the Line Packer *)

\* str.split(): the maximal runs of non-whitespace characters, in order
RECURSIVE SplitFrom(_, _, _, _)
SplitFrom(chars, i, word, acc) ==
    IF i > Len(chars)
    THEN IF word = <<>> THEN acc ELSE Append(acc, word)
    ELSE IF chars[i] = " "
         THEN With(<<i + 1, IF word = <<>> THEN acc ELSE Append(acc, word)>>,
                   LAMBDA r : SplitFrom(chars, r[1], <<>>, r[2]))
         ELSE With(<<i + 1, Append(word, chars[i])>>,
                   LAMBDA r : SplitFrom(chars, r[1], r[2], acc))

Split(chars) == SplitFrom(chars, 1, <<>>, <<>>)

\* font.getbbox(word): bbox[2] - bbox[0] at the font's size; every glyph of
\* the modelled font is one em wide
GetBBoxWidth(word, f) == Len(word) * f.size

\* the body of get_word_width; its memoization is modelled in SpecCache
get_word_width(word, f) == GetBBoxWidth(word, f)

RECURSIVE SumWidths(_, _)
SumWidths(words, f) ==
    IF words = <<>> THEN 0
    ELSE get_word_width(Head(words), f) + SumWidths(Tail(words), f)

\* TextLine.words_width
words_width(line) == SumWidths(line.words, line.font)

\* TextLine.total_width
total_width(line) ==
    RAdd(FromInt(words_width(line)),
         RMul(line.word_spacing, FromInt(Len(line.words))))

\* TextLine.add_word
add_word(line, word) == [line EXCEPT !.words = Append(@, word)]

\* TextLine.fit_length; length is a rational
fit_length(line, length) ==
    IF Len(line.words) > 1
    THEN LET space_count == Len(line.words) - 1 IN
         With(RDiv(RSub(length, FromInt(words_width(line))),
                   FromInt(space_count)),
              LAMBDA solved : [line EXCEPT !.word_spacing = solved])
    ELSE [line EXCEPT !.word_spacing = Zero]

Quarter == Rat(25, 100)

AcceptsWideTolerance(new_width, length, spacing) ==
    \/ RLess(new_width, FromInt(length))
    \/ RLess(RSub(new_width, FromInt(length)), RMul(spacing, Rat(25, 10)))

\* the test of align_text_to_boundaries that admits a word to the line
Accepts(new_width, length, spacing) ==
    \/ RLess(new_width, FromInt(length))
    \/ RLess(RSub(new_width, FromInt(length)), RMul(spacing, Quarter))

PushBackDropped(word, rest) == rest

\* words.insert(0, word): the rejected word goes back to the front of the
\* pending words, rest being what words.pop(0) left
PushBack(word, rest) == <<word>> \o rest

\* the while loop over the pending words for one boundary; broke = the loop
\* was left by break (a word was rejected and pushed back)
RECURSIVE FillLine(_, _, _, _)
FillLine(line, words, boundary, spacing) ==
    IF words = <<>> THEN [line |-> line, words |-> words, broke |-> FALSE]
    ELSE LET word == Head(words)
             additional_width ==
                 RAdd(FromInt(get_word_width(word, line.font)), spacing)
         IN  With(RAdd(additional_width, total_width(line)), LAMBDA new_width :
             IF Accepts(new_width, BoundaryLength(boundary), spacing)
             THEN With(add_word(line, word), LAMBDA longer :
                      FillLine(longer, Tail(words), boundary, spacing))
             ELSE [line |-> fit_length(line, FromInt(BoundaryLength(boundary))),
                   words |-> PushBack(word, Tail(words)), broke |-> TRUE])

RECURSIVE AlignFrom(_, _, _, _, _, _)
AlignFrom(bs, i, words, f, spacing, acc) ==
    IF i > Len(bs) THEN [lines |-> acc, words |-> words]
    ELSE LET line == [word_spacing |-> spacing,
                      start_point |-> bs[i].start_point,
                      font |-> f, words |-> <<>>]
         IN  With(FillLine(line, words, bs[i], spacing), LAMBDA r :
             IF r.broke
             THEN With(Append(acc, r.line), LAMBDA more :
                      AlignFrom(bs, i + 1, r.words, f, spacing, more))
             ELSE IF r.line.words # <<>>
                  THEN With(Append(acc, fit_length(r.line,
                                      FromInt(BoundaryLength(bs[i])))),
                            LAMBDA more :
                                AlignFrom(bs, i + 1, r.words, f, spacing, more))
                  ELSE AlignFrom(bs, i + 1, r.words, f, spacing, acc))

align_text_to_boundaries(chars, bs, f, spacing) ==
    With(Split(chars), LAMBDA words :
        AlignFrom(bs, 1, words, f, spacing, <<>>).lines)

----------------------------------------------------------------------------
(* Renderer: the cursor arithmetic of draw_text_lines *)

\* the line as draw_text_lines leaves it: a lone word becomes '', word, ''
RenderLine(line) ==
    IF Len(line.words) = 1
    THEN With(total_width(line), LAMBDA length :
             fit_length([line EXCEPT
                            !.words = << <<>>, line.words[1], <<>> >>],
                        length))
    ELSE line

\* the draw.text calls of one line: each word with the x of its point
RECURSIVE DrawWords(_, _, _, _, _)
DrawWords(line, f, i, x, acc) ==
    IF i > Len(line.words) THEN acc
    ELSE With(RAdd(x, RAdd(FromInt(get_word_width(line.words[i], f)),
                           line.word_spacing)),
              LAMBDA next_x :
                  DrawWords(line, f, i + 1, next_x,
                            Append(acc, [word |-> line.words[i], x |-> x])))

draw_text_lines(ls, f) ==
    [i \in 1 .. Len(ls) |->
        With(RenderLine(ls[i]), LAMBDA line :
            DrawWords(line, f, 1, FromInt(line.start_point[1]), <<>>))]

----------------------------------------------------------------------------
(* SpecPack: align_text_to_boundaries, then draw_text_lines, applied to    *)
(* every small text, boundary list, font size and minimum spacing          *)

Chars == {"a", " "}

Texts == UNION { [1 .. n -> Chars] : n \in 0 .. MaxText }

\* the k-th boundary of a list lies on row k and starts at x = k
PackBoundary(k, len) ==
    [start_point |-> <<k, k>>, end_point |-> <<k + len, k>>]

PackBoundaryLists ==
    UNION { { [k \in 1 .. n |-> PackBoundary(k, lens[k])] :
                lens \in [1 .. n -> 0 .. MaxLen] } : n \in 0 .. 2 }

\* 0, and the fractions of the font size fit_text_to_image passes
PackSpacings(size) ==
    {Zero} \cup { RMul(Rat(k, 10), FromInt(size)) : k \in 2 .. 8 }

InitPack ==
    /\ pc = "pack"
    /\ text \in Texts
    /\ boundaries \in PackBoundaryLists
    /\ \E size \in 1 .. MaxFontSize :
          /\ font = [size |-> size]
          /\ min_spacing \in PackSpacings(size)
    /\ lines = <<>> /\ drawn = <<>>
    /\ image = NoImage /\ boundaries_spacing = 0
    /\ lower = Zero /\ upper = Zero /\ font_size = Zero
    /\ hist = NoHist
    /\ cache = <<>> /\ fonts = <<>> /\ runs = <<>>

AlignTextToBoundaries ==
    /\ pc = "pack"
    /\ lines' = align_text_to_boundaries(text, boundaries, font, min_spacing)
    /\ pc' = "packed"
    /\ UNCHANGED <<image, boundaries_spacing, boundaries, text, font,
                   min_spacing, drawn, lower, upper, font_size, hist, cache,
                   fonts, runs>>

DrawTextLines ==
    /\ pc = "packed"
    /\ drawn' = draw_text_lines(lines, font)
    /\ lines' = [i \in 1 .. Len(lines) |-> RenderLine(lines[i])]
    /\ pc' = "drawn"
    /\ UNCHANGED <<image, boundaries_spacing, boundaries, text, font,
                   min_spacing, lower, upper, font_size, hist, cache, fonts,
                   runs>>

NextPack == AlignTextToBoundaries \/ DrawTextLines

SpecPack == InitPack /\ [][NextPack]_vars

----------------------------------------------------------------------------
(* Claims about the packer and the renderer (checked under SpecPack) *)

Epsilon == Rat(1, 1000)

RAbs(a) == <<Abs(a[1]), a[2]>>

\* C2: every multi-word line finalized by the packer has total_width equal
\* to the length of its boundary (within 1e-3) and word_spacing >= 0.
C2_TotalWidthEqualsBoundaryLength ==
    pc = "packed" =>
        \A i \in 1 .. Len(lines) :
            Len(lines[i].words) > 1 =>
                /\ RLeq(RAbs(RSub(total_width(lines[i]),
                                  FromInt(BoundaryLength(boundaries[i])))),
                        Epsilon)
                /\ RLeq(Zero, lines[i].word_spacing)

\* a line that held exactly one word before the renderer rewrote it
LoneWord(line) == Len(line.words) = 3 /\ line.words[1] = <<>>

\* C3: a line of exactly one word is drawn centered in its boundary: the
\* word is drawn at (boundary length - word width) / 2 from the boundary's
\* start.
C3_LoneWordCentered ==
    pc = "drawn" =>
        \A i \in 1 .. Len(lines) :
            LoneWord(lines[i]) =>
                drawn[i][2].x =
                    RAdd(FromInt(boundaries[i].start_point[1]),
                         RDiv(FromInt(BoundaryLength(boundaries[i])
                                  - get_word_width(lines[i].words[2], font)),
                              FromInt(2)))

\* C7: the packer never places into a line a word whose own glyph width
\* exceeds the length of that line's boundary.
C7_NoWordWiderThanBoundary ==
    pc = "packed" =>
        \A i \in 1 .. Len(lines) :
            \A k \in 1 .. Len(lines[i].words) :
                get_word_width(lines[i].words[k], font)
                    <= BoundaryLength(boundaries[i])

\* a line whose last word was admitted only through the overflow tolerance
C7_Witness ==
    /\ pc = "packed"
    /\ RLess(Zero, min_spacing)
    /\ \E i \in 1 .. Len(lines) :
          /\ lines[i].words # <<>>
          /\ RLess(FromInt(BoundaryLength(boundaries[i])),
                   RAdd(FromInt(words_width(lines[i])),
                       RMul(min_spacing, FromInt(Len(lines[i].words)))))

\* the words of the lines, concatenated in line order
RECURSIVE PlacedWords(_)
PlacedWords(ls) ==
    IF ls = <<>> THEN <<>>
    ELSE With(PlacedWords(Tail(ls)), LAMBDA later : Head(ls).words \o later)

IsPrefix(p, s) == Len(p) <= Len(s) /\ SubSeq(s, 1, Len(p)) = p

\* C11: the lines returned by align_text_to_boundaries are at most as many
\* as the boundaries, the i-th line is anchored at the start point of the
\* i-th boundary, and the words of the lines concatenated in line order are
\* a prefix of the whitespace-split text: no word is dropped, duplicated or
\* reordered, a rejected word pushed back to the pending words included.
C11_LinesArePrefixOfText ==
    pc = "packed" =>
        /\ Len(lines) <= Len(boundaries)
        /\ \A i \in 1 .. Len(lines) :
              lines[i].start_point = boundaries[i].start_point
        /\ IsPrefix(PlacedWords(lines), Split(text))

\* a word rejected at the first boundary was pushed back and placed as the
\* first word of the second line, after a different word on the first line
C11_Witness ==
    /\ pc = "packed"
    /\ Len(lines) = 2
    /\ lines[1].words # <<>>
    /\ lines[2].words # <<>>
    /\ lines[2].words[1] # lines[1].words[Len(lines[1].words)]
    /\ Len(Split(text)) = Len(lines[1].words) + Len(lines[2].words)

----------------------------------------------------------------------------
(* Font-Size Search: fit_text_to_image *)

SpacingFactors == <<2, 3, 4, 5, 6, 7, 8>>   \* tenths of the font size

load_font(size) == [size |-> size]

total_words(chars) == Len(Split(chars))

RECURSIVE WordsPlaced(_)
WordsPlaced(ls) ==
    IF ls = <<>> THEN 0 ELSE Len(Head(ls).words) + WordsPlaced(Tail(ls))

\* the success test of the search
Fits(ls, bs, chars) ==
    Len(ls) = Len(bs) /\ WordsPlaced(ls) = total_words(chars)

\* for min_spacing in spacings: scan, pack, break at the first layout that
\* fits; the result is the layout last computed
Layout(ls, bs, spacing) ==
    [lines |-> ls, boundaries |-> bs, min_spacing |-> spacing]

RECURSIVE TrySpacings(_, _, _, _, _)
TrySpacings(img, chars, size, f, i) ==
    With(RMul(Rat(SpacingFactors[i], 10), size), LAMBDA spacing :
    With(get_text_boundaries(img, RFloor(size)), LAMBDA bs :
    With(align_text_to_boundaries(chars, bs, f, spacing), LAMBDA ls :
        IF Fits(ls, bs, chars) \/ i = Len(SpacingFactors)
        THEN Layout(ls, bs, spacing)
        ELSE TrySpacings(img, chars, size, f, i + 1))))

AtCeilingTypo(size, lo, up) == RLeq(lo, size)

\* if font_size >= upper
AtCeiling(size, lo, up) == RLeq(up, size)

Half == Rat(1, 2)

MidpointStuck(up, lo) == up

\* font_size = (upper + lower) / 2
Midpoint(up, lo) == RDiv(RAdd(up, lo), FromInt(2))

ClassifyNoBreak(ls, bs, chars, size, lo, up) ==
    IF Len(ls) < Len(bs)
    THEN IF AtCeiling(size, lo, up)
         THEN LET u == RAdd(up, RMul(RSub(up, lo), FromInt(2))) IN
              [stop |-> FALSE, lower |-> lo, upper |-> u, font_size |-> u,
               bisect |-> FALSE]
         ELSE [stop |-> FALSE, lower |-> size, upper |-> up,
               font_size |-> Midpoint(up, size), bisect |-> TRUE]
    ELSE [stop |-> FALSE, lower |-> lo, upper |-> size,
          font_size |-> Midpoint(size, lo), bisect |-> TRUE]

\* the if / elif / else after the spacing loop, and the bisection that
\* follows it: the window and candidate of the next iteration, or stop
Classify(ls, bs, chars, size, lo, up) ==
    IF Len(ls) < Len(bs)
    THEN IF AtCeiling(size, lo, up)
         THEN LET u == RAdd(up, RMul(RSub(up, lo), FromInt(2))) IN
              [stop |-> FALSE, lower |-> lo, upper |-> u, font_size |-> u,
               bisect |-> FALSE]
         ELSE [stop |-> FALSE, lower |-> size, upper |-> up,
               font_size |-> Midpoint(up, size), bisect |-> TRUE]
    ELSE IF WordsPlaced(ls) < total_words(chars)
         THEN [stop |-> FALSE, lower |-> lo, upper |-> size,
               font_size |-> Midpoint(size, lo), bisect |-> TRUE]
         ELSE [stop |-> TRUE, lower |-> lo, upper |-> up, font_size |-> size,
               bisect |-> FALSE]

\* while upper - lower > 0.5
WindowOpen(lo, up) == RLess(Half, RSub(up, lo))

\* the working image: width max(2000, width) (here MinScaledWidth), height
\* int(scaled_width * image_ratio); resampling may leave any content
SourceSizes == { <<5, 2>>, <<20, 12>>, <<30, 6>> }

ScaledWidth(src) == Max(MinScaledWidth, src[1])

ScaledHeight(src) == RFloor(RMul(FromInt(ScaledWidth(src)), Rat(src[2], src[1])))

Rect(x0, x1, y0, y1) == (x0 .. x1) \X (y0 .. y1)

Shapes(w, h) ==
    {{}, Rect(0, w - 1, 0, h - 1),
     Rect(0, 4, 0, h - 1) \cup Rect(10, 14, 0, h - 1)}
    \cup { Rect(x0, x1, y0, y1) :
             x0 \in {0, 3}, x1 \in {3, 8}, y0 \in {2}, y1 \in {3, h - 1} }

FitTexts == UNION { [1 .. n -> Chars] : n \in 0 .. MaxFitText }

WorkingImages ==
    UNION { { [width |-> ScaledWidth(src), height |-> ScaledHeight(src),
               px |-> p] :
                p \in Shapes(ScaledWidth(src), ScaledHeight(src)) } :
            src \in SourceSizes }

Init ==
    /\ pc = "loop"
    /\ image \in WorkingImages
    /\ text \in FitTexts
    /\ lower = FromInt(1)
    /\ upper = Rat(image.width, 10)
    /\ font_size = upper
    /\ lines = <<>> /\ boundaries = <<>>
    /\ font = NoFont
    /\ min_spacing = Zero
    /\ drawn = <<>>
    /\ hist = NoHist
    /\ boundaries_spacing = 0
    /\ cache = <<>> /\ fonts = <<>> /\ runs = <<>>

\* one iteration of the while loop
Iterate ==
    /\ pc = "loop"
    /\ WindowOpen(lower, upper)
    /\ \E f \in {load_font(RFloor(font_size))} :
       \E r \in {TrySpacings(image, text, font_size, f, 1)} :
       \E c \in {Classify(r.lines, r.boundaries, text, font_size, lower,
                          upper)} :
           /\ font' = f
           /\ lines' = r.lines
           /\ boundaries' = r.boundaries
           /\ min_spacing' = r.min_spacing
           /\ boundaries_spacing' = RFloor(font_size)
           /\ lower' = c.lower
           /\ upper' = c.upper
           /\ font_size' = c.font_size
           /\ pc' = IF c.stop THEN "render" ELSE "loop"
           /\ hist' = [evaluated |-> TRUE,
                       found |-> Fits(r.lines, r.boundaries, text),
                       bisected |-> hist.bisected \/ c.bisect,
                       expanded |-> hist.expanded \/ RLess(upper, c.upper),
                       last_size |-> font_size]
    /\ UNCHANGED <<image, text, drawn, cache, fonts, runs>>

\* the while condition fails: the window has collapsed
WindowCollapsed ==
    /\ pc = "loop"
    /\ ~WindowOpen(lower, upper)
    /\ pc' = "render"
    /\ UNCHANGED <<image, boundaries_spacing, boundaries, text, font,
                   min_spacing, lines, drawn, lower, upper, font_size, hist,
                   cache, fonts, runs>>

\* the code after the loop: draw the lines on an empty canvas
Render ==
    /\ pc = "render"
    /\ drawn' = draw_text_lines(lines, font)
    /\ lines' = [i \in 1 .. Len(lines) |-> RenderLine(lines[i])]
    /\ pc' = "done"
    /\ UNCHANGED <<image, boundaries_spacing, boundaries, text, font,
                   min_spacing, lower, upper, font_size, hist, cache, fonts,
                   runs>>

Next == Iterate \/ WindowCollapsed \/ Render

Spec == Init /\ [][Next]_vars

\* the loop is sequential code: a step that can be taken is taken
FairSpec == Spec /\ WF_vars(Next)

----------------------------------------------------------------------------
(* Claims about the font-size search (checked under Spec and FairSpec) *)

\* C4: the search loop terminates for every image and text: after finitely
\* many ceiling expansions the window collapses or a fitting layout is
\* reached, and fit_text_to_image returns.
C4_SearchTerminates == <>(pc = "done")

\* a finished run over a text that never fitted, whose ceiling was expanded
C4_Witness ==
    /\ pc = "done"
    /\ hist.expanded
    /\ ~hist.found
    /\ WordsPlaced(lines) < total_words(text)

\* C5: when the search ends, either it stopped at the first candidate size
\* that produced a fitting layout and returns that layout, or the window has
\* collapsed and it returns the layout of the last candidate evaluated; no
\* candidate is evaluated after a fitting layout was found.
C5_SearchResult ==
    /\ hist.found => pc # "loop"
    /\ pc = "render" =>
         /\ hist.evaluated
         /\ boundaries = get_text_boundaries(image, RFloor(hist.last_size))
         /\ \E i \in 1 .. Len(SpacingFactors) :
               min_spacing = RMul(Rat(SpacingFactors[i], 10), hist.last_size)
         /\ lines = align_text_to_boundaries(text, boundaries,
                        load_font(RFloor(hist.last_size)), min_spacing)
         /\ \/ hist.found /\ Fits(lines, boundaries, text)
            \/ ~hist.found /\ ~WindowOpen(lower, upper)

\* the search ended on a collapsed window with a partial layout
C5_Witness ==
    /\ pc = "render"
    /\ ~hist.found
    /\ hist.bisected
    /\ lines # <<>>
    /\ ~Fits(lines, boundaries, text)

\* the search ended on a fitting layout found after bisecting
C5_WitnessFit ==
    /\ pc = "render"
    /\ hist.found
    /\ hist.bisected
    /\ lines # <<>>

\* C6: for an image with no opaque pixel the scanner yields no boundary and
\* fit_text_to_image performs no iteration of the search loop.
C6_TransparentImageShortCircuits ==
    image.px = {} => boundaries = <<>> /\ ~hist.evaluated

\* C10: the ceiling is expanded (by 2 * (upper - lower), the candidate set
\* to the new ceiling) only while the candidate equals upper and never after
\* a bisection step; 1 <= lower <= font_size <= upper at the start of every
\* iteration.
C10_TwoPhaseSearch ==
    /\ [](pc = "loop" =>
            /\ RLeq(FromInt(1), lower)
            /\ RLeq(lower, font_size)
            /\ RLeq(font_size, upper))
    /\ [][RLess(upper, upper') =>
            /\ font_size = upper
            /\ ~hist.bisected
            /\ upper' = RAdd(upper, RMul(RSub(upper, lower), FromInt(2)))
            /\ font_size' = upper']_vars

\* an iteration starts after both a ceiling expansion and a bisection
C10_Witness == pc = "loop" /\ hist.expanded /\ hist.bisected

----------------------------------------------------------------------------
(* SpecCache: the process-wide memoization table of get_word_width, used   *)
(* by fitting runs that interleave in one process.  A run is reduced to    *)
(* what touches the table: load_font at a new candidate size, the lookups  *)
(* of align_text_to_boundaries and draw_text_lines with the current font,  *)
(* and the cache_clear that ends the run.                                  *)

Runs == {1, 2}

CacheWords == { <<"a">>, <<"a", "a">> }

FontIds == 1 .. MaxFonts

\* int(font_size) of the candidates a run goes through
CacheSizes == {1, 2}

NoKey == <<>>

NoLookup == [word |-> <<>>, size |-> 0, value |-> 0]

KeyByWord(word, id) == <<word, 0>>

\* the key functools.cache makes of (word, font): an ImageFont hashes and
\* compares by identity
CacheKey(word, id) == <<word, id>>

\* the font objects something still refers to: a run's font, the font its
\* lines hold, a key of the table, the arguments of a call in progress
ReferencedBy(rs, table) ==
    { rs[r].font : r \in Runs } \cup { rs[r].lines_font : r \in Runs }
    \cup { table[k].font : k \in DOMAIN table }
    \cup { rs[r].pending_font : r \in Runs }

Referenced == ReferencedBy(runs, cache)

\* an object nothing refers to is deallocated
Sweep(objects, rs, table) ==
    [id \in FontIds |->
        IF id \in ReferencedBy(rs, table) THEN objects[id] ELSE 0]

InitCache ==
    /\ pc = "cache"
    /\ cache = <<>>
    /\ fonts = [id \in FontIds |-> 0]
    /\ runs = [r \in Runs |->
                 [pc |-> "loop", font |-> 0, size |-> 0, lines_font |-> 0,
                  pending |-> NoKey, pending_font |-> 0, pending_value |-> 0,
                  last |-> NoLookup]]
    /\ image = NoImage /\ boundaries_spacing = 0 /\ boundaries = <<>>
    /\ text = <<>> /\ font = NoFont /\ min_spacing = Zero
    /\ lines = <<>> /\ drawn = <<>>
    /\ lower = Zero /\ upper = Zero /\ font_size = Zero
    /\ hist = NoHist

CacheUnchanged ==
    UNCHANGED <<pc, image, boundaries_spacing, boundaries, text, font,
                min_spacing, lines, drawn, lower, upper, font_size, hist>>

\* font = load_font(font_fp, int(font_size)): a new font object; its
\* identity may be that of an object no longer referenced
LoadFont(r, size) ==
    /\ runs[r].pc = "loop"
    /\ \E id \in FontIds \ Referenced :
          /\ runs' = [runs EXCEPT ![r].font = id, ![r].size = size]
          /\ fonts' = Sweep([fonts EXCEPT ![id] = size], runs', cache)
    /\ UNCHANGED cache
    /\ CacheUnchanged

\* get_word_width(word, font) finds the key in the table
LookupHit(r, word) ==
    /\ runs[r].pc = "loop"
    /\ runs[r].font # 0
    /\ CacheKey(word, runs[r].font) \in DOMAIN cache
    /\ runs' = [runs EXCEPT
                  ![r].lines_font = runs[r].font,
                  ![r].last = [word |-> word, size |-> runs[r].size,
                               value |-> cache[CacheKey(word,
                                                 runs[r].font)].value]]
    /\ fonts' = Sweep(fonts, runs', cache)
    /\ UNCHANGED cache
    /\ CacheUnchanged

\* the key is missing: the wrapped function measures the word with the
\* font object it was given
LookupMiss(r, word) ==
    /\ runs[r].pc = "loop"
    /\ runs[r].font # 0
    /\ CacheKey(word, runs[r].font) \notin DOMAIN cache
    /\ runs' = [runs EXCEPT
                  ![r].pc = "measured",
                  ![r].lines_font = runs[r].font,
                  ![r].pending = CacheKey(word, runs[r].font),
                  ![r].pending_font = runs[r].font,
                  ![r].pending_value =
                      get_word_width(word, [size |-> fonts[runs[r].font]]),
                  ![r].last = [word |-> word, size |-> runs[r].size,
                               value |-> 0]]
    /\ fonts' = Sweep(fonts, runs', cache)
    /\ UNCHANGED cache
    /\ CacheUnchanged

\* the measured width is stored under the key and returned
Store(r) ==
    /\ runs[r].pc = "measured"
    /\ cache' = [k \in DOMAIN cache \cup {runs[r].pending} |->
                    IF k = runs[r].pending
                    THEN [font |-> runs[r].pending_font,
                          value |-> runs[r].pending_value]
                    ELSE cache[k]]
    /\ runs' = [runs EXCEPT
                  ![r].pc = "loop",
                  ![r].pending = NoKey,
                  ![r].pending_font = 0,
                  ![r].pending_value = 0,
                  ![r].last.value = runs[r].pending_value]
    /\ UNCHANGED fonts
    /\ CacheUnchanged

\* get_word_width.cache_clear() and return: the run's objects are dropped
CacheClear(r) ==
    /\ runs[r].pc = "loop"
    /\ runs[r].font # 0
    /\ cache' = <<>>
    /\ runs' = [runs EXCEPT ![r].pc = "done", ![r].font = 0,
                            ![r].lines_font = 0]
    /\ fonts' = Sweep(fonts, runs', cache')
    /\ CacheUnchanged

NextCache ==
    \E r \in Runs :
        \/ \E size \in CacheSizes : LoadFont(r, size)
        \/ \E word \in CacheWords : LookupHit(r, word)
        \/ \E word \in CacheWords : LookupMiss(r, word)
        \/ Store(r)
        \/ CacheClear(r)

SpecCache == InitCache /\ [][NextCache]_vars

\* C8: every glyph-width lookup of a fitting run returns the width of the
\* word at the run's current candidate font size, whatever the other runs
\* and earlier candidate sizes left in the shared table.
C8_LookupReturnsCurrentWidth ==
    pc = "cache" =>
        \A r \in Runs :
            (runs[r].last # NoLookup /\ runs[r].pc # "measured") =>
                runs[r].last.value =
                    GetBBoxWidth(runs[r].last.word,
                                 [size |-> runs[r].last.size])

\* a run has looked a word up with its current font, the other run has
\* finished and cleared the table, and the table holds both that word and a
\* width measured at another size
C8_Witness ==
    /\ pc = "cache"
    /\ \E r \in Runs, o \in Runs :
          /\ r # o
          /\ runs[o].pc = "done"
          /\ runs[r].pc = "loop"
          /\ runs[r].last # NoLookup
          /\ runs[r].lines_font = runs[r].font
          /\ CacheKey(runs[r].last.word, runs[r].font) \in DOMAIN cache
          /\ \E k \in DOMAIN cache :
                fonts[cache[k].font] # runs[r].size

====
